---- MODULE Spec2Model ----
(***************************************************************************)
(* Model of sw.js, the service worker of folio: the install listener       *)
(* (precache), the activate listener (deletion of stale cache generations) *)
(* and the fetch listener (method gate, host bypass, cache-first image     *)
(* branch with its eviction check, cache-first allowlist branch and        *)
(* network-first same-origin branch).                                      *)
(*                                                                         *)
(* Strings the listener inspects (hostname, href, origin) are sequences of *)
(* tokens: labels and the separators "https", "://", "." and "/".          *)
(* String.includes is a contiguous-subsequence test and String.startsWith  *)
(* a prefix test over those tokens.                                        *)
(*                                                                         *)
(* The CacheStorage / Cache objects are modelled by what the platform      *)
(* does: caches.keys() and caches.match() visit the generations in         *)
(* creation order, cache.keys() visits the entries in insertion order,     *)
(* cache.put() removes an entry with the same URL and appends the new one, *)
(* cache.addAll() stores all its responses or none.                        *)
(***************************************************************************)
EXTENDS Integers, Sequences, FiniteSets, Bags, TLC

\* ------------------------------------------------------------------------
\* Bounds of the model
\* ------------------------------------------------------------------------
\* fetch events in one behaviour
MaxEvents == 2
\* fetch events of the race scenario (RaceSpec)
MaxRaceEvents == 3
\* handlers in flight at the same time
MaxInFlight == 2
\* image fetches of the sequential scenario (SeqSpec)
MaxSeq == 102
\* fetch events of the routing scenario (RouteSpec)
MaxRouteEvents == 2

\* image requests handled concurrently in the burst scenario
MaxBurst == 2

\* fetch events of the repeat-write scenario
MaxRepeat == 3

\* fetch events of the rollover scenario
MaxRolloverEvents == 1

\* fetch events of the scenario with failing store operations
MaxFailEvents == 2

\* fetch events of the scenario under fairness
MaxLiveEvents == 2

\* ------------------------------------------------------------------------
\* Constants of sw.js
\* ------------------------------------------------------------------------
CACHE_NAME == "folio-v1.0"

IMAGE_CACHE == "folio-images-v1"

IMAGE_CACHE_LIMIT == 100

\* self.location.origin: the origin the worker is served from
SelfHost == <<"matt-10013", ".", "github", ".", "io">>

\* A URL is <<kind, n>>; Hostname and Pathname give its text.
ImgUrl(n) == <<"img", n>>

PRECACHE_URLS == << <<"root", 0>>, <<"index", 0>>, <<"manifest", 0>> >>

Hostname(u) ==
  CASE u[1] \in {"root", "index", "manifest", "app"} -> SelfHost
    [] u[1] = "img"      -> <<"images", ".", "unsplash", ".", "com">>
    [] u[1] = "api"      -> <<"api", ".", "unsplash", ".", "com">>
    [] u[1] = "font"     -> <<"fonts", ".", "googleapis", ".", "com">>
    [] u[1] = "sdk"      -> <<"www", ".", "gstatic", ".", "com">>
    [] u[1] = "gstatic"  -> <<"www", ".", "gstatic", ".", "com">>
    [] u[1] = "firestore" -> <<"firestore", ".", "googleapis", ".", "com">>
    [] u[1] = "auth"     -> <<"folio", "-", "firebaseauth", ".", "web", ".", "app">>
    [] u[1] = "idtk"     -> <<"identitytoolkit", ".", "googleapis", ".", "com">>
    [] u[1] = "idtkpath" -> <<"www", ".", "googleapis", ".", "com">>
    [] u[1] = "token"    -> <<"securetoken", ".", "googleapis", ".", "com">>
    [] u[1] = "fsimg"    -> <<"firestore", ".", "images", ".", "unsplash", ".", "com">>
    [] u[1] = "idtkimg"  -> <<"identitytoolkit", ".", "googleapis", ".", "com", ".", "images", ".", "unsplash", ".", "com">>
    [] u[1] = "apiimg"   -> <<"api", ".", "unsplash", ".", "com", ".", "images", ".", "unsplash", ".", "com">>
    [] OTHER             -> <<"example", ".", "org">>

Pathname(u) ==
  CASE u[1] = "root"     -> <<"/", "folio", "/">>
    [] u[1] = "index"    -> <<"/", "folio", "/", "index.html">>
    [] u[1] = "manifest" -> <<"/", "folio", "/", "manifest.json">>
    [] u[1] = "app"      -> <<"/", "folio", "/", "app.js">>
    [] u[1] = "img"      -> <<"/", "photo-", ToString(u[2])>>
    [] u[1] = "sdk"      -> <<"/", "firebasejs", "/", "app.js">>
    [] u[1] = "gstatic"  -> <<"/", "images", "/", "logo.png">>
    [] u[1] = "idtkpath" -> <<"/", "identitytoolkit", "/", "v3">>
    [] OTHER             -> <<"/", "x">>

\* new URL(event.request.url): origin and href
Origin(u) == <<"https", "://">> \o Hostname(u)

Href(u) == Origin(u) \o Pathname(u)

RUNTIME_CACHE_ORIGINS ==
  << <<"https", "://", "fonts", ".", "googleapis", ".", "com">>,
     <<"https", "://", "fonts", ".", "gstatic", ".", "com">>,
     <<"https", "://", "www", ".", "gstatic", ".", "com", "/", "firebasejs">> >>

\* String.prototype.startsWith
StartsWith(s, p) == /\ Len(p) <= Len(s)
                    /\ SubSeq(s, 1, Len(p)) = p

\* String.prototype.includes
Includes(s, p) ==
  \E i \in 0..(Len(s) - Len(p)) : SubSeq(s, i + 1, i + Len(p)) = p

\* the four markers of line 36, as written in the source
AuthMarkers ==
  << <<"firebaseauth">>,
     <<"firestore">>,
     <<"googleapis", ".", "com", "/", "identitytoolkit">>,
     <<"securetoken">> >>

ApiMarker == <<"api", ".", "unsplash", ".", "com">>

ImageMarker == <<"images", ".", "unsplash", ".", "com">>

\* A request is [method, url].
Get(u) == [method |-> "GET", url |-> u]

Post(u) == [method |-> "POST", url |-> u]

NonGet(r) == r.method # "GET"

AuthBypass(r) == \E i \in 1..Len(AuthMarkers) : Includes(Hostname(r.url), AuthMarkers[i])

ApiBypass(r) == Includes(Hostname(r.url), ApiMarker)

IsImage(r) == Includes(Hostname(r.url), ImageMarker)

IsRuntime(r) ==
  \E i \in 1..Len(RUNTIME_CACHE_ORIGINS) : StartsWith(Href(r.url), RUNTIME_CACHE_ORIGINS[i])

IsSameOrigin(r) == Origin(r.url) = <<"https", "://">> \o SelfHost

\* the listener without the method gate of line 35
RouteNoMethodGate(r) ==
  IF AuthBypass(r) THEN "bypass"
  ELSE IF ApiBypass(r) THEN "bypass"
  ELSE IF IsImage(r) THEN "image"
  ELSE IF IsRuntime(r) THEN "runtime"
  ELSE IF IsSameOrigin(r) THEN "sameorigin"
  ELSE "bypass"

\* The if-chain of the fetch listener: which branch calls respondWith, or
\* "bypass" when the listener returns without it.
Route(r) ==
  IF NonGet(r) THEN "bypass"
  ELSE IF AuthBypass(r) THEN "bypass"
  ELSE IF ApiBypass(r) THEN "bypass"
  ELSE IF IsImage(r) THEN "image"
  ELSE IF IsRuntime(r) THEN "runtime"
  ELSE IF IsSameOrigin(r) THEN "sameorigin"
  ELSE "bypass"

\* ------------------------------------------------------------------------
\* Responses and the network
\* ------------------------------------------------------------------------
\* A response is [ok, body]; Undefined is what a lookup without a match
\* resolves to.
Undefined == [ok |-> FALSE, body |-> -1]

OkResp(b) == [ok |-> TRUE, body |-> b]

ErrResp == [ok |-> FALSE, body |-> 0]

\* What fetch() resolves to: an ok response or an error status. The network
\* serves body 1; body 0 is content stored by earlier versions of the worker.
NetResponse(ok) == IF ok THEN OkResp(1) ELSE ErrResp

\* ------------------------------------------------------------------------
\* CacheStorage (caches) and Cache: a sequence of generations in creation
\* order, each [name, entries], entries in insertion order
\* ------------------------------------------------------------------------
GenNames(s) == {s[i].name : i \in 1..Len(s)}

HasGen(s, name) == name \in GenNames(s)

GenIndex(s, name) == CHOOSE i \in 1..Len(s) : s[i].name = name

Entries(s, name) == IF HasGen(s, name) THEN s[GenIndex(s, name)].entries ELSE <<>>

EntryUrls(es) == {es[i].url : i \in 1..Len(es)}

\* the snapshot an entry list holds for a URL, or Undefined
Lookup(es, u) ==
  IF u \in EntryUrls(es)
  THEN es[CHOOSE i \in 1..Len(es) : es[i].url = u].resp
  ELSE Undefined

Without(es, u) == SelectSeq(es, LAMBDA e : e.url # u)

\* caches.open(name): creates the generation when there is none
CachesOpen(s, name) ==
  IF HasGen(s, name) THEN s ELSE Append(s, [name |-> name, entries |-> <<>>])

\* caches.delete(name)
CachesDelete(s, name) == SelectSeq(s, LAMBDA g : g.name # name)

\* caches.keys()
CachesKeys(s) == [i \in 1..Len(s) |-> s[i].name]

\* a lookup that never finds anything
CachesMatchNone(s, u) == Undefined

\* caches.match(request): the first generation, in creation order, that
\* holds the URL answers
CachesMatch(s, u) ==
  LET hits == {i \in 1..Len(s) : u \in EntryUrls(s[i].entries)}
  IN IF hits = {} THEN Undefined
     ELSE Lookup(s[CHOOSE i \in hits : \A j \in hits : i <= j].entries, u)

WithEntries(s, name, es) ==
  [i \in 1..Len(s) |-> IF s[i].name = name THEN [s[i] EXCEPT !.entries = es] ELSE s[i]]

\* a put that replaces the snapshot of an entry where the entry is
CachePutInPlace(s, name, u, resp) ==
  IF u \in EntryUrls(Entries(s, name))
  THEN WithEntries(s, name,
                   [i \in 1..Len(Entries(s, name)) |->
                      IF Entries(s, name)[i].url = u
                      THEN [url |-> u, resp |-> resp]
                      ELSE Entries(s, name)[i]])
  ELSE WithEntries(s, name, Append(Entries(s, name), [url |-> u, resp |-> resp]))

\* cache.put(request, response): an entry with the same URL is removed and
\* the new entry is appended
CachePut(s, name, u, resp) ==
  WithEntries(s, name, Append(Without(Entries(s, name), u), [url |-> u, resp |-> resp]))

\* cache.keys()
CacheKeys(s, name) == [i \in 1..Len(Entries(s, name)) |-> Entries(s, name)[i].url]

\* cache.delete(request)
CacheDelete(s, name, u) == WithEntries(s, name, Without(Entries(s, name), u))

RECURSIVE PutAll(_, _, _, _)
\* cache.addAll(urls) once every response is in: one put per URL
PutAll(s, name, urls, resps) ==
  IF urls = <<>> THEN s
  ELSE PutAll(CachePut(s, name, Head(urls), Head(resps)), name, Tail(urls), Tail(resps))

\* ------------------------------------------------------------------------
\* State
\* ------------------------------------------------------------------------
VARIABLES
  store,     \* caches: the generations, in creation order
  phase,     \* "installing", "redundant", "activating", "activated"
  inst,      \* the install listener: [pc, got]
  skipped,   \* self.skipWaiting() has been called
  act,       \* the activate listener: [pc, pending, tried, rejected, live]
  h,         \* the respondWith handlers in flight, a bag of handler records
  last,      \* the handler the last step finished, if it finished one
  events,    \* fetch events the listener ran for so far
  declined   \* the request the last fetch event returned from without respondWith

vars == <<store, phase, inst, skipped, act, h, last, events, declined>>

NoUrl == <<"none", 0>>

NoRequest == [method |-> "NONE", url |-> NoUrl]

\* A handler: pc is the position of the promise chain given to respondWith
\* ("match", "fetch", "fallback", "done"); out/resp is what the caller got;
\* wb, put and ev are the positions of the write-behind task (caches.open,
\* the cache.put that is not awaited, cache.keys and cache.delete); keys0 is
\* keys[0] of the enumeration taken.
\* nfetch, via, sawImg and sawCur record what the handler did and saw: the
\* number of network fetches it issued, where its outcome came from
\* ("cache", "network", "fallback") and what the image generation / the
\* current-version generation held for its URL when it looked the URL up;
\* net is the response its fetch resolved to.
Idle ==
  [pc |-> "idle", req |-> NoRequest, route |-> "none", out |-> "none",
   resp |-> Undefined, wb |-> "none", put |-> "none", ev |-> "none",
   keys0 |-> NoUrl, nfetch |-> 0, via |-> "none",
   sawImg |-> Undefined, sawCur |-> Undefined, net |-> Undefined]

\* the handler has settled and nothing of its write-behind task is pending
Finished(x) == /\ x.pc = "done"
               /\ x.wb # "open"
               /\ x.put # "pending"
               /\ x.ev \notin {"keys", "delete"}

\* every branch writing to the current-version generation
TargetAlwaysCurrent(route) == CACHE_NAME

\* the generation a branch writes to
Target(route) == IF route = "image" THEN IMAGE_CACHE ELSE CACHE_NAME

\* storing whatever the network answered
ShouldStoreAlways(resp) == TRUE

\* if (response.ok)
ShouldStore(resp) == resp.ok

\* an addAll that takes any response
AddAllAcceptsAny(resp) == TRUE

\* cache.addAll rejects when a response is not ok
AddAllAccepts(resp) == resp.ok

\* a filter that keeps the current-version generation only
IsStaleButCurrent(k) == k # CACHE_NAME

\* keys.filter(k => k !== CACHE_NAME && k !== IMAGE_CACHE)
IsStale(k) == k # CACHE_NAME /\ k # IMAGE_CACHE

\* if (keys.length > IMAGE_CACHE_LIMIT)
OverLimit(n) == n > IMAGE_CACHE_LIMIT

\* ------------------------------------------------------------------------
\* Initial states: a first installation on an empty origin, or an update
\* over what earlier versions left (two stale generations and a full image
\* generation).
\* ------------------------------------------------------------------------
OldResp == OkResp(0)

Stale ==
  [name |-> "folio-v0.9",
   entries |-> << [url |-> <<"index", 0>>, resp |-> OldResp],
                  [url |-> ImgUrl(IMAGE_CACHE_LIMIT + 1), resp |-> OldResp] >>]

FullImages ==
  [name |-> IMAGE_CACHE,
   entries |-> [i \in 1..IMAGE_CACHE_LIMIT |-> [url |-> ImgUrl(i), resp |-> OldResp]]]

InitStores == { <<>>, <<Stale, FullImages>> }

\* the requests the pages issue that reach a caching branch
Requests ==
  { Get(<<"index", 0>>), Get(<<"app", 0>>), Get(<<"font", 0>>),
    Get(ImgUrl(1)), Get(ImgUrl(IMAGE_CACHE_LIMIT + 1)), Get(ImgUrl(IMAGE_CACHE_LIMIT + 2)) }

\* requests of every kind the listener tells apart
AllRequests ==
  Requests \cup
  { Get(<<"sdk", 0>>), Get(<<"api", 0>>), Get(<<"firestore", 0>>), Get(<<"auth", 0>>),
    Get(<<"idtk", 0>>), Get(<<"idtkpath", 0>>), Get(<<"token", 0>>),
    Get(<<"fsimg", 0>>), Get(<<"apiimg", 0>>), Get(<<"idtkimg", 0>>),
    Get(<<"gstatic", 0>>),
    Get(<<"other", 0>>),
    Post(<<"index", 0>>), Post(ImgUrl(1)), Post(<<"font", 0>>), Post(<<"firestore", 0>>) }

Init ==
  /\ store \in InitStores
  /\ phase = "installing"
  /\ inst = [pc |-> "open", got |-> <<>>]
  /\ skipped = FALSE
  /\ act = [pc |-> "idle", pending |-> {}, tried |-> {}, rejected |-> {}, live |-> <<>>]
  /\ h = EmptyBag
  /\ last = Idle
  /\ events = 0
  /\ declined = NoRequest

\* ------------------------------------------------------------------------
\* install listener (lines 17-23)
\* ------------------------------------------------------------------------
\* caches.open(CACHE_NAME)
InstallOpen ==
  /\ phase = "installing" /\ inst.pc = "open"
  /\ store' = CachesOpen(store, CACHE_NAME)
  /\ inst' = [inst EXCEPT !.pc = "addAll"]
  /\ UNCHANGED <<phase, skipped, act, h, last, events, declined>>

\* cache.addAll: the fetch of the next precache URL resolves
InstallFetch(ok) ==
  /\ phase = "installing" /\ inst.pc = "addAll"
  /\ Len(inst.got) < Len(PRECACHE_URLS)
  /\ IF AddAllAccepts(NetResponse(ok))
     THEN /\ inst' = [inst EXCEPT !.got = Append(@, NetResponse(ok))]
          /\ phase' = phase
     ELSE /\ inst' = [inst EXCEPT !.pc = "failed"]
          /\ phase' = "redundant"
  /\ UNCHANGED <<store, skipped, act, h, last, events, declined>>

\* cache.addAll: a precache fetch rejects; waitUntil's promise rejects
InstallFetchReject ==
  /\ phase = "installing" /\ inst.pc = "addAll"
  /\ Len(inst.got) < Len(PRECACHE_URLS)
  /\ inst' = [inst EXCEPT !.pc = "failed", !.got = <<>>]
  /\ phase' = "redundant"
  /\ UNCHANGED <<store, skipped, act, h, last, events, declined>>

\* cache.addAll: every response is in and all are stored at once
InstallCommit ==
  /\ phase = "installing" /\ inst.pc = "addAll"
  /\ Len(inst.got) = Len(PRECACHE_URLS)
  /\ store' = PutAll(store, CACHE_NAME, PRECACHE_URLS, inst.got)
  /\ inst' = [inst EXCEPT !.pc = "stored"]
  /\ UNCHANGED <<phase, skipped, act, h, last, events, declined>>

\* .then(() => self.skipWaiting()); the activate event follows
SkipWaiting ==
  /\ phase = "installing" /\ inst.pc = "stored"
  /\ skipped' = TRUE
  /\ inst' = [inst EXCEPT !.pc = "done"]
  /\ phase' = "activating"
  /\ act' = [act EXCEPT !.pc = "keys"]
  /\ UNCHANGED <<store, h, last, events, declined>>

\* ------------------------------------------------------------------------
\* activate listener (lines 25-31)
\* ------------------------------------------------------------------------
\* caches.keys().then(keys => Promise.all(keys.filter(..).map(caches.delete)))
\* every deletion is issued here; act.live keeps the live generations as
\* they are at this moment
ActivateKeys ==
  /\ phase = "activating" /\ act.pc = "keys"
  /\ LET stale == {k \in GenNames(store) : IsStale(k)}
     IN act' = [pc |-> "deleting", pending |-> stale, tried |-> stale, rejected |-> {},
                live |-> SelectSeq(store, LAMBDA g : g.name \in {CACHE_NAME, IMAGE_CACHE})]
  /\ UNCHANGED <<store, phase, inst, skipped, h, last, events, declined>>

\* one caches.delete(k) resolves
DeleteStale(k) ==
  /\ k \in act.pending
  /\ store' = CachesDelete(store, k)
  /\ act' = [act EXCEPT !.pending = @ \ {k}]
  /\ last' = Idle
  /\ UNCHANGED <<phase, inst, skipped, h, events, declined>>

\* a rollover that gives up the deletions still to settle when one rejects
DeleteStaleRejectAborts(k) ==
  /\ k \in act.pending
  /\ act' = [act EXCEPT !.pending = {}, !.rejected = @ \cup {k},
                        !.pc = IF @ = "deleting" THEN "rejected" ELSE @]
  /\ phase' = IF act.pc = "deleting" THEN "activated" ELSE phase
  /\ last' = Idle
  /\ UNCHANGED <<store, inst, skipped, h, events, declined>>

\* one caches.delete(k) rejects: Promise.all rejects, clients.claim() is not
\* reached, and the worker is activated all the same; the other deletions
\* were issued by the map of line 28 and go on
DeleteStaleReject(k) ==
  /\ k \in act.pending
  /\ act' = [act EXCEPT !.pending = @ \ {k}, !.rejected = @ \cup {k},
                        !.pc = IF @ = "deleting" THEN "rejected" ELSE @]
  /\ phase' = IF act.pc = "deleting" THEN "activated" ELSE phase
  /\ last' = Idle
  /\ UNCHANGED <<store, inst, skipped, h, events, declined>>

\* Promise.all resolved: .then(() => self.clients.claim())
ActivateClaim ==
  /\ phase = "activating" /\ act.pc = "deleting" /\ act.pending = {}
  /\ act' = [act EXCEPT !.pc = "claimed"]
  /\ phase' = "activated"
  /\ UNCHANGED <<store, inst, skipped, h, last, events, declined>>

\* ------------------------------------------------------------------------
\* fetch listener (lines 33-89)
\* ------------------------------------------------------------------------
InFlight == BagToSet(h)

\* Handler x becomes y; a handler with nothing left to do leaves the bag and
\* is shown in last until the next step.
Becomes(x, y) ==
  /\ h' = (h (-) SetToBag({x})) (+) (IF Finished(y) THEN EmptyBag ELSE SetToBag({y}))
  /\ last' = IF Finished(y) THEN y ELSE Idle

\* the handler a branch starts with respondWith: the cache-first branches
\* begin with caches.match, the same-origin branch with fetch
Started(r) ==
  [Idle EXCEPT !.req = r, !.route = Route(r),
               !.pc = IF Route(r) = "sameorigin" THEN "fetch" ELSE "match"]

\* The listener runs for request r: it returns without respondWith, or it
\* calls respondWith with the promise chain of its branch.
FetchEventOn(r, budget) ==
  /\ phase = "activated"
  /\ events < budget
  /\ events' = events + 1
  /\ IF Route(r) = "bypass"
     THEN /\ declined' = r
          /\ UNCHANGED h
     ELSE /\ BagCardinality(h) < MaxInFlight
          /\ h' = h (+) SetToBag({Started(r)})
          /\ declined' = NoRequest
  /\ last' = Idle
  /\ UNCHANGED <<store, phase, inst, skipped, act>>

FetchEvent(r) == FetchEventOn(r, MaxEvents)

\* a lookup that answers with the snapshot it finds and goes on to the
\* network all the same
MatchThenRevalidate(x) ==
  /\ x.pc = "match"
  /\ LET cached == CachesMatch(store, x.req.url)
         seen == [x EXCEPT !.sawImg = Lookup(Entries(store, IMAGE_CACHE), x.req.url),
                              !.sawCur = Lookup(Entries(store, CACHE_NAME), x.req.url)]
     IN Becomes(x,
                IF cached # Undefined
                THEN [seen EXCEPT !.pc = "fetch", !.out = "resp", !.resp = cached,
                                  !.via = "cache", !.nfetch = @ + 1]
                ELSE [seen EXCEPT !.pc = "fetch", !.nfetch = @ + 1])
  /\ UNCHANGED <<store, phase, inst, skipped, act, events, declined>>

\* caches.match(event.request).then(cached => { if (cached) return cached; ...
Match(x) ==
  /\ x.pc = "match"
  /\ LET cached == CachesMatch(store, x.req.url)
         seen == [x EXCEPT !.sawImg = Lookup(Entries(store, IMAGE_CACHE), x.req.url),
                              !.sawCur = Lookup(Entries(store, CACHE_NAME), x.req.url)]
     IN Becomes(x,
                IF cached # Undefined
                THEN [seen EXCEPT !.pc = "done", !.out = "resp", !.resp = cached,
                                  !.via = "cache"]
                ELSE [seen EXCEPT !.pc = "fetch", !.nfetch = @ + 1])
  /\ UNCHANGED <<store, phase, inst, skipped, act, events, declined>>

\* a listener that stores the snapshot before it answers: the put is made
\* in the step that gives the caller the response
FetchResolveStoresFirst(x, ok) ==
  /\ x.pc = "fetch"
  /\ LET response == NetResponse(ok)
     IN /\ store' = IF ShouldStore(response)
                    THEN CachePut(CachesOpen(store, Target(x.route)), Target(x.route),
                                  x.req.url, response)
                    ELSE store
        /\ Becomes(x,
                   [x EXCEPT !.pc = "done", !.out = "resp", !.resp = response,
                             !.via = "network", !.net = response,
                             !.nfetch = IF x.route = "sameorigin" THEN 1 ELSE @,
                             !.wb = IF ShouldStore(response) THEN "run" ELSE "none",
                             !.put = IF ShouldStore(response) THEN "done" ELSE "none",
                             !.ev = IF ShouldStore(response) /\ x.route = "image"
                                    THEN "keys" ELSE "none"])
  /\ UNCHANGED <<phase, inst, skipped, act, events, declined>>

\* a same-origin branch that treats an error status like a failed fetch and
\* goes to the cache
FetchResolveErrorFallsBack(x, ok) ==
  /\ x.pc = "fetch"
  /\ LET response == NetResponse(ok)
     IN Becomes(x,
                IF ~response.ok /\ x.route = "sameorigin"
                THEN [x EXCEPT !.pc = "fallback", !.nfetch = 1, !.net = response]
                ELSE [x EXCEPT !.pc = "done", !.out = "resp", !.resp = response,
                               !.via = "network", !.net = response,
                               !.nfetch = IF x.route = "sameorigin" THEN 1 ELSE @,
                               !.wb = IF ShouldStore(response) THEN "open" ELSE "none"])
  /\ UNCHANGED <<store, phase, inst, skipped, act, events, declined>>

\* fetch(event.request).then(response => { if (response.ok) {...}; return response })
\* the response goes to the caller; when it is ok the write-behind task
\* (caches.open(..).then(..)) is started and not waited for
FetchResolve(x, ok) ==
  /\ x.pc = "fetch"
  /\ LET response == NetResponse(ok)
     IN Becomes(x,
                [x EXCEPT !.pc = "done", !.out = "resp", !.resp = response,
                          !.via = "network", !.net = response,
                          !.nfetch = IF x.route = "sameorigin" THEN 1 ELSE @,
                          !.wb = IF ShouldStore(response) THEN "open" ELSE "none"])
  /\ UNCHANGED <<store, phase, inst, skipped, act, events, declined>>

\* every branch with the .catch of the same-origin branch
FetchRejectAlwaysCaught(x) ==
  /\ x.pc = "fetch"
  /\ Becomes(x, [x EXCEPT !.pc = "fallback", !.nfetch = 1])
  /\ UNCHANGED <<store, phase, inst, skipped, act, events, declined>>

\* fetch(event.request) rejects: the cache-first branches have no catch and
\* fail; the same-origin branch goes to .catch(() => caches.match(..))
FetchReject(x) ==
  /\ x.pc = "fetch"
  /\ Becomes(x,
             IF x.route = "sameorigin"
             THEN [x EXCEPT !.pc = "fallback", !.nfetch = 1]
             ELSE [x EXCEPT !.pc = "done", !.out = "fail", !.via = "network"])
  /\ UNCHANGED <<store, phase, inst, skipped, act, events, declined>>

\* .catch(() => caches.match(event.request)): respondWith(undefined) is a
\* network error for the caller
Fallback(x) ==
  /\ x.pc = "fallback"
  /\ LET cached == CachesMatch(store, x.req.url)
         seen == [x EXCEPT !.sawCur = Lookup(Entries(store, CACHE_NAME), x.req.url)]
     IN Becomes(x,
                IF cached # Undefined
                THEN [seen EXCEPT !.pc = "done", !.out = "resp", !.resp = cached,
                                  !.via = "fallback"]
                ELSE [seen EXCEPT !.pc = "done", !.out = "fail", !.via = "fallback"])
  /\ UNCHANGED <<store, phase, inst, skipped, act, events, declined>>

\* caches.open(target).then(cache => ...): the generation is created when
\* missing, cache.put is issued and, in the image branch, cache.keys too
WbOpen(x) ==
  /\ x.wb = "open"
  /\ store' = CachesOpen(store, Target(x.route))
  /\ Becomes(x,
             [x EXCEPT !.wb = "run", !.put = "pending",
                       !.ev = IF x.route = "image" THEN "keys" ELSE "none"])
  /\ UNCHANGED <<phase, inst, skipped, act, events, declined>>

\* cache.put(event.request, clone) completes
PutCommit(x) ==
  /\ x.put = "pending"
  /\ store' = CachePut(store, Target(x.route), x.req.url, x.resp)
  /\ Becomes(x, [x EXCEPT !.put = "done"])
  /\ UNCHANGED <<phase, inst, skipped, act, events, declined>>

\* a write whose rejection reaches the promise given to respondWith
PutRejectSurfaces(x) ==
  /\ x.put = "pending"
  /\ Becomes(x, [x EXCEPT !.put = "failed", !.out = "fail", !.resp = Undefined])
  /\ UNCHANGED <<store, phase, inst, skipped, act, events, declined>>

\* cache.put rejects (quota, storage error): nobody handles the rejection
PutReject(x) ==
  /\ x.put = "pending"
  /\ Becomes(x, [x EXCEPT !.put = "failed"])
  /\ UNCHANGED <<store, phase, inst, skipped, act, events, declined>>

\* const keys = await cache.keys(); if (keys.length > IMAGE_CACHE_LIMIT) ...
Keys(x) ==
  /\ x.ev = "keys"
  /\ LET keys == CacheKeys(store, IMAGE_CACHE)
     IN Becomes(x,
                [x EXCEPT !.keys0 = IF OverLimit(Len(keys)) THEN keys[1] ELSE NoUrl,
                          !.ev = IF OverLimit(Len(keys)) THEN "delete" ELSE "done"])
  /\ UNCHANGED <<store, phase, inst, skipped, act, events, declined>>

\* await cache.delete(keys[0])
EvictDelete(x) ==
  /\ x.ev = "delete"
  /\ store' = CacheDelete(store, IMAGE_CACHE, x.keys0)
  /\ Becomes(x, [x EXCEPT !.ev = "done"])
  /\ UNCHANGED <<phase, inst, skipped, act, events, declined>>

\* caches.open(target) rejects: the write-behind task ends there, nobody
\* handles the rejection
WbOpenReject(x) ==
  /\ x.wb = "open"
  /\ Becomes(x, [x EXCEPT !.wb = "failed"])
  /\ UNCHANGED <<store, phase, inst, skipped, act, events, declined>>

\* await cache.keys() rejects: the async callback of line 46 rejects, nobody
\* handles the rejection
KeysReject(x) ==
  /\ x.ev = "keys"
  /\ Becomes(x, [x EXCEPT !.ev = "failed"])
  /\ UNCHANGED <<store, phase, inst, skipped, act, events, declined>>

\* await cache.delete(keys[0]) rejects
EvictDeleteReject(x) ==
  /\ x.ev = "delete"
  /\ Becomes(x, [x EXCEPT !.ev = "failed"])
  /\ UNCHANGED <<store, phase, inst, skipped, act, events, declined>>

\* ------------------------------------------------------------------------
\* Specification: the lifecycle and concurrently handled fetch events
\* ------------------------------------------------------------------------
Lifecycle ==
  \/ InstallOpen
  \/ \E ok \in BOOLEAN : InstallFetch(ok)
  \/ InstallFetchReject
  \/ InstallCommit
  \/ SkipWaiting
  \/ ActivateKeys
  \/ \E k \in act.pending : DeleteStale(k)
  \/ \E k \in act.pending : DeleteStaleReject(k)
  \/ ActivateClaim

Handlers ==
  \/ \E x \in InFlight : Match(x)
  \/ \E x \in InFlight, ok \in BOOLEAN : FetchResolve(x, ok)
  \/ \E x \in InFlight : FetchReject(x)
  \/ \E x \in InFlight : Fallback(x)
  \/ \E x \in InFlight : WbOpen(x)
  \/ \E x \in InFlight : PutCommit(x)
  \/ \E x \in InFlight : PutReject(x)
  \/ \E x \in InFlight : Keys(x)
  \/ \E x \in InFlight : EvictDelete(x)

Next ==
  \/ Lifecycle
  \/ \E r \in Requests : FetchEvent(r)
  \/ Handlers

Spec == Init /\ [][Next]_vars

\* ------------------------------------------------------------------------
\* Specification of the races: the same worker and requests, with one more
\* fetch event
\* ------------------------------------------------------------------------
RaceEvent(r) == FetchEventOn(r, MaxRaceEvents)

RaceNext ==
  \/ Lifecycle
  \/ \E r \in Requests : RaceEvent(r)
  \/ Handlers

RaceSpec == Init /\ [][RaceNext]_vars

\* ------------------------------------------------------------------------
\* Specification of the routing: the same worker, with requests of every
\* kind the listener tells apart
\* ------------------------------------------------------------------------
RouteEvent(r) == FetchEventOn(r, MaxRouteEvents)

RouteNext ==
  \/ Lifecycle
  \/ \E r \in AllRequests : RouteEvent(r)
  \/ Handlers

RouteSpec == Init /\ [][RouteNext]_vars

\* ------------------------------------------------------------------------
\* Specification of the sequential scenario: an activated worker on an
\* origin that held nothing before its installation; image requests
\* photo-1, photo-2, ... arrive one after the other, each after the handler
\* and the write-behind task of the one before have finished, and every
\* fetch succeeds with an ok response
\* ------------------------------------------------------------------------
Quiet == h = EmptyBag

SeqInit ==
  /\ store = PutAll(CachesOpen(<<>>, CACHE_NAME), CACHE_NAME, PRECACHE_URLS,
                    [i \in 1..Len(PRECACHE_URLS) |-> OkResp(1)])
  /\ phase = "activated"
  /\ inst = [pc |-> "done", got |-> [i \in 1..Len(PRECACHE_URLS) |-> OkResp(1)]]
  /\ skipped = TRUE
  /\ act = [pc |-> "claimed", pending |-> {}, tried |-> {}, rejected |-> {},
            live |-> PutAll(CachesOpen(<<>>, CACHE_NAME), CACHE_NAME, PRECACHE_URLS,
                            [i \in 1..Len(PRECACHE_URLS) |-> OkResp(1)])]
  /\ h = EmptyBag
  /\ last = Idle
  /\ events = 0
  /\ declined = NoRequest

SeqEvent ==
  /\ Quiet
  /\ FetchEventOn(Get(ImgUrl(events + 1)), MaxSeq)

SeqNext ==
  \/ SeqEvent
  \/ \E x \in InFlight : Match(x)
  \/ \E x \in InFlight : FetchResolve(x, TRUE)
  \/ \E x \in InFlight : WbOpen(x)
  \/ \E x \in InFlight : PutCommit(x)
  \/ \E x \in InFlight : Keys(x)
  \/ \E x \in InFlight : EvictDelete(x)

SeqSpec == SeqInit /\ [][SeqNext]_vars

\* ------------------------------------------------------------------------
\* Specification of the rollover scenario: an update over what two earlier
\* versions left, with or without an image generation
\* ------------------------------------------------------------------------
StaleOlder ==
  [name |-> "folio-v0.8",
   entries |-> << [url |-> <<"app", 0>>, resp |-> OldResp] >>]

RolloverStores == { <<StaleOlder, Stale>>, <<StaleOlder, Stale, FullImages>> }

RolloverInit ==
  /\ store \in RolloverStores
  /\ phase = "installing"
  /\ inst = [pc |-> "open", got |-> <<>>]
  /\ skipped = FALSE
  /\ act = [pc |-> "idle", pending |-> {}, tried |-> {}, rejected |-> {}, live |-> <<>>]
  /\ h = EmptyBag
  /\ last = Idle
  /\ events = 0
  /\ declined = NoRequest

RolloverEvent(r) == FetchEventOn(r, MaxRolloverEvents)

RolloverNext ==
  \/ Lifecycle
  \/ \E r \in Requests : RolloverEvent(r)
  \/ Handlers

RolloverSpec == RolloverInit /\ [][RolloverNext]_vars

\* ------------------------------------------------------------------------
\* Specification of the failing store: an activated worker whose image
\* generation is at its limit, where every operation of the write-behind
\* task (caches.open, cache.put, cache.keys, cache.delete) may reject
\* ------------------------------------------------------------------------
FailInit ==
  /\ store = Append(PutAll(CachesOpen(<<>>, CACHE_NAME), CACHE_NAME, PRECACHE_URLS,
                           [i \in 1..Len(PRECACHE_URLS) |-> OkResp(1)]),
                    FullImages)
  /\ phase = "activated"
  /\ inst = [pc |-> "done", got |-> [i \in 1..Len(PRECACHE_URLS) |-> OkResp(1)]]
  /\ skipped = TRUE
  /\ act = [pc |-> "claimed", pending |-> {}, tried |-> {}, rejected |-> {}, live |-> <<>>]
  /\ h = EmptyBag
  /\ last = Idle
  /\ events = 0
  /\ declined = NoRequest

FailEvent(r) == FetchEventOn(r, MaxFailEvents)

FailNext ==
  \/ \E r \in Requests : FailEvent(r)
  \/ Handlers
  \/ \E x \in InFlight : WbOpenReject(x)
  \/ \E x \in InFlight : KeysReject(x)
  \/ \E x \in InFlight : EvictDeleteReject(x)

FailSpec == FailInit /\ [][FailNext]_vars

\* ------------------------------------------------------------------------
\* Specification under fairness: an activated worker on an origin that held
\* nothing before its installation and one request of each caching branch; a
\* lookup that was started resolves, a fetch that was started resolves or
\* rejects; nothing is assumed of the write-behind task and of the arrival
\* of requests.  The image generation starts empty and takes at most
\* MaxLiveEvents entries, so line 49 is never reached and the steps are
\* those of Handlers without EvictDelete
\* ------------------------------------------------------------------------
LiveRequests ==
  { Get(<<"app", 0>>), Get(<<"font", 0>>), Get(ImgUrl(IMAGE_CACHE_LIMIT + 2)) }

LiveEvent(r) == FetchEventOn(r, MaxLiveEvents)

LiveNext ==
  \/ \E r \in LiveRequests : LiveEvent(r)
  \/ \E x \in InFlight : Match(x)
  \/ \E x \in InFlight, ok \in BOOLEAN : FetchResolve(x, ok)
  \/ \E x \in InFlight : FetchReject(x)
  \/ \E x \in InFlight : Fallback(x)
  \/ \E x \in InFlight : WbOpen(x)
  \/ \E x \in InFlight : PutCommit(x)
  \/ \E x \in InFlight : PutReject(x)
  \/ \E x \in InFlight : Keys(x)

LookupSettles == \E x \in InFlight : Match(x) \/ Fallback(x)

FetchSettles ==
  \E x \in InFlight : \/ \E ok \in BOOLEAN : FetchResolve(x, ok)
                       \/ FetchReject(x)

LiveSpec ==
  /\ SeqInit
  /\ [][LiveNext]_vars
  /\ WF_vars(LookupSettles)
  /\ WF_vars(FetchSettles)

\* ------------------------------------------------------------------------
\* Specification of the burst scenario: an activated worker whose image
\* generation is at its limit; MaxBurst requests for new images are handled
\* concurrently, and once they and their write-behind tasks have finished
\* one further request for a new image arrives; every fetch succeeds with
\* an ok response
\* ------------------------------------------------------------------------
BurstInit ==
  /\ store = Append(PutAll(CachesOpen(<<>>, CACHE_NAME), CACHE_NAME, PRECACHE_URLS,
                           [i \in 1..Len(PRECACHE_URLS) |-> OkResp(1)]),
                    FullImages)
  /\ phase = "activated"
  /\ inst = [pc |-> "done", got |-> [i \in 1..Len(PRECACHE_URLS) |-> OkResp(1)]]
  /\ skipped = TRUE
  /\ act = [pc |-> "claimed", pending |-> {}, tried |-> {}, rejected |-> {}, live |-> <<>>]
  /\ h = EmptyBag
  /\ last = Idle
  /\ events = 0
  /\ declined = NoRequest

BurstEvent ==
  /\ (events < MaxBurst \/ Quiet)
  /\ FetchEventOn(Get(ImgUrl(IMAGE_CACHE_LIMIT + events + 1)), MaxBurst + 1)

BurstNext ==
  \/ BurstEvent
  \/ \E x \in InFlight : Match(x)
  \/ \E x \in InFlight : FetchResolve(x, TRUE)
  \/ \E x \in InFlight : WbOpen(x)
  \/ \E x \in InFlight : PutCommit(x)
  \/ \E x \in InFlight : Keys(x)
  \/ \E x \in InFlight : EvictDelete(x)

BurstSpec == BurstInit /\ [][BurstNext]_vars

\* ------------------------------------------------------------------------
\* Specification of the repeat-write scenario: an activated worker whose
\* image generation is at its limit; the same new image is requested
\* MaxRepeat - 1 times, then another new image once, at most MaxInFlight
\* requests being handled at a time; every fetch succeeds with an ok
\* response
\* ------------------------------------------------------------------------
RepeatEvent ==
  FetchEventOn(Get(ImgUrl(IF events < MaxRepeat - 1
                          THEN IMAGE_CACHE_LIMIT + 2
                          ELSE IMAGE_CACHE_LIMIT + 1)),
               MaxRepeat)

RepeatNext ==
  \/ RepeatEvent
  \/ \E x \in InFlight : Match(x)
  \/ \E x \in InFlight : FetchResolve(x, TRUE)
  \/ \E x \in InFlight : WbOpen(x)
  \/ \E x \in InFlight : PutCommit(x)
  \/ \E x \in InFlight : Keys(x)
  \/ \E x \in InFlight : EvictDelete(x)

RepeatSpec == BurstInit /\ [][RepeatNext]_vars

\* ------------------------------------------------------------------------
\* Properties
\* ------------------------------------------------------------------------
LiveNames == {CACHE_NAME, IMAGE_CACHE}

ImageEntries == Entries(store, IMAGE_CACHE)

CurrentEntries == Entries(store, CACHE_NAME)

\* the handlers in flight and the one that finished last
Seen == InFlight \cup {last}

\* C1: cache-first for images. A handler of an image request that looks the
\* URL up while the image generation holds a snapshot for it issues no
\* network fetch and answers with that snapshot.
C1_ImageCacheFirst ==
  \A x \in Seen :
    (x.route = "image" /\ x.pc \in {"fetch", "done"} /\ x.sawImg # Undefined)
      => /\ x.nfetch = 0
         /\ x.pc = "done"
         /\ x.out = "resp"
         /\ x.resp = x.sawImg

\* a second request for photo-102, which no generation holds initially, is
\* answered from the snapshot the first one fetched and stored
C1_Witness ==
  /\ last.req = Get(ImgUrl(IMAGE_CACHE_LIMIT + 2))
  /\ last.via = "cache"
  /\ last.nfetch = 0
  /\ last.resp = OkResp(1)
  /\ last.sawImg = OkResp(1)

\* C2: after N > 100 sequential successful fetches of distinct images, each
\* with its store write and eviction check finished, the image generation
\* holds exactly 100 entries; after 101 of them photo-1 is gone and
\* photo-101 is held.
C2_SequentialBound ==
  (Quiet /\ events > IMAGE_CACHE_LIMIT)
    => /\ Len(ImageEntries) = IMAGE_CACHE_LIMIT
       /\ (events = IMAGE_CACHE_LIMIT + 1
             => /\ ImgUrl(1) \notin EntryUrls(ImageEntries)
                /\ ImgUrl(IMAGE_CACHE_LIMIT + 1) \in EntryUrls(ImageEntries))

\* C3: an eviction check that deletes an entry deletes exactly the entry
\* inserted earliest among those held at that moment.
C3_EvictsOldest ==
  [][Len(Entries(store', IMAGE_CACHE)) < Len(ImageEntries)
       => Entries(store', IMAGE_CACHE) = Tail(ImageEntries)]_vars

\* C4: when the fetch of a same-origin request fails, the caller gets the
\* snapshot the current-version generation holds for the URL, and a failure
\* when it holds none.
C4_FallbackFromCurrent ==
  \A x \in Seen :
    (x.route = "sameorigin" /\ x.via = "fallback")
      => IF x.sawCur # Undefined
         THEN x.out = "resp" /\ x.resp = x.sawCur
         ELSE x.out = "fail"

\* C5: a request whose method is not GET gets no handler, whatever its host:
\* the listener returns without respondWith and the step changes no
\* generation.
C5_NonGetDeclined ==
  [][/\ \A x \in BagToSet(h') : ~NonGet(x.req)
     /\ \A r \in AllRequests :
          (NonGet(r) /\ declined' = r /\ events' # events)
            => (store' = store /\ h' = h)]_vars

C5_Witness ==
  /\ declined = Post(ImgUrl(1))
  /\ phase = "activated"

\* the hosts the bypass list is about: a host holding one of the markers
\* firebaseauth, firestore, identitytoolkit or securetoken, or the
\* image-discovery API host. Line 36 looks for the identity-verification
\* endpoint as "googleapis.com/identitytoolkit", a marker that spans host and
\* path.
MarkerHost(r) ==
  \/ AuthBypass(r)
  \/ ApiBypass(r)
  \/ Includes(Hostname(r.url), <<"identitytoolkit">>)

\* C6: a request whose host matches a bypass marker gets no handler of any
\* branch, and the step that declines it changes no generation.
C6_MarkerHostDeclined ==
  [][/\ \A x \in BagToSet(h') : ~MarkerHost(x.req)
     /\ \A r \in AllRequests :
          (MarkerHost(r) /\ declined' = r /\ events' # events)
            => (store' = store /\ h' = h)]_vars

\* a GET whose host holds the identity-verification marker and the image
\* host has a handler of the image branch
C6_Witness ==
  \E x \in InFlight :
    /\ x.req = Get(<<"idtkimg", 0>>)
    /\ x.route = "image"

\* C7: every snapshot of the two live generations has ok status.
C7_OnlyOkStored ==
  \A name \in LiveNames :
    \A i \in 1..Len(Entries(store, name)) : Entries(store, name)[i].resp.ok

\* a non-ok response was handed to the caller and nothing was written for it
C7_Witness ==
  /\ last.via = "network"
  /\ last.out = "resp" /\ ~last.resp.ok
  /\ last.wb = "none"
  /\ last.req.url \notin EntryUrls(Entries(store, Target(last.route)))

\* C8: once the rollover has completed (clients.claim is reached) no
\* generation other than the two live ones exists, and until the first
\* fetch event the live generations are as they were when it began.
C8_RolloverKeepsLive ==
  act.pc = "claimed"
    => /\ GenNames(store) \subseteq LiveNames
       /\ events = 0
            => SelectSeq(store, LAMBDA g : g.name \in LiveNames) = act.live

C8_Witness ==
  /\ act.pc = "claimed"
  /\ act.tried # {}
  /\ events = 0
  /\ Len(ImageEntries) = IMAGE_CACHE_LIMIT

PrecacheSet == {PRECACHE_URLS[i] : i \in 1..Len(PRECACHE_URLS)}

\* C9: skipWaiting is called only with every precache URL stored in the
\* current-version generation; a failed precache fetch fails the install
\* and skipWaiting is never called; on an origin that held nothing the
\* current-version generation then holds exactly the precache URLs, all ok.
C9_ProvisionAllOrNothing ==
  /\ skipped => /\ PrecacheSet \subseteq EntryUrls(CurrentEntries)
                /\ \A u \in PrecacheSet : Lookup(CurrentEntries, u).ok
  /\ inst.pc = "failed" => (~skipped /\ phase = "redundant"
                            /\ EntryUrls(CurrentEntries) = {})
  /\ (inst.pc = "stored" /\ Len(store) = 1)
       => /\ EntryUrls(CurrentEntries) = PrecacheSet
          /\ Len(CurrentEntries) = Len(PRECACHE_URLS)
          /\ \A u \in PrecacheSet : Lookup(CurrentEntries, u).ok

C9_Witness ==
  /\ skipped
  /\ Len(store) = 1
  /\ events = 0
  /\ Len(CurrentEntries) = Len(PRECACHE_URLS)

\* the ordered rule list of the classification
RuleHolds(i, r) ==
  CASE i = 1 -> NonGet(r)
    [] i = 2 -> MarkerHost(r) /\ ~ApiBypass(r)
    [] i = 3 -> ApiBypass(r)
    [] i = 4 -> IsImage(r)
    [] i = 5 -> IsRuntime(r)
    [] i = 6 -> IsSameOrigin(r)
    [] OTHER -> TRUE

RuleCategory ==
  <<"bypass", "bypass", "bypass", "image", "runtime", "sameorigin", "bypass">>

FirstRule(r) ==
  CHOOSE i \in 1..Len(RuleCategory) : RuleHolds(i, r) /\ \A j \in 1..(i - 1) : ~RuleHolds(j, r)

\* C10: the branch taken for a request is the category of the first rule of
\* the ordered list that matches it; a declined request's first rule is a
\* bypass rule.
C10_FirstMatchWins ==
  /\ \A x \in Seen :
       x.pc # "idle" => x.route = RuleCategory[FirstRule(x.req)]
  /\ declined # NoRequest => RuleCategory[FirstRule(declined)] = "bypass"

\* a request matching the bypass-marker rule and the image rule is handled
\* by the image branch
C10_Witness ==
  \E x \in Seen :
    /\ x.pc # "idle"
    /\ RuleHolds(2, x.req) /\ RuleHolds(4, x.req)
    /\ x.route = "image"

\* C11: a response the network delivered with an error status goes to the
\* caller as it is, in every branch: there is no fallback to the cache, no
\* write-behind task is started for it and the step changes no generation.
C11_ErrorStatusPassedThrough ==
  [][/\ \A x \in Seen' :
          (x.net # Undefined /\ ~x.net.ok)
            => /\ x.pc = "done" /\ x.out = "resp" /\ x.via = "network"
               /\ x.resp = x.net
               /\ x.wb = "none" /\ x.put = "none" /\ x.ev = "none"
     /\ (last'.net # Undefined /\ ~last'.net.ok) => store' = store]_vars

\* a same-origin request whose URL the current-version generation holds got
\* the error response of the network
C11_Witness ==
  /\ last.route = "sameorigin"
  /\ last.net = ErrResp /\ last.resp = ErrResp /\ last.via = "network"
  /\ Lookup(CurrentEntries, last.req.url) = OkResp(1)

\* a handler of a cache-first branch whose lookup missed and whose fetch
\* rejected
CacheFirstFetchFailed(x) ==
  /\ x.route \in {"image", "runtime"}
  /\ x.nfetch = 1
  /\ x.pc # "fetch"
  /\ x.net = Undefined

\* C12: a cache-first request whose lookup finds nothing and whose fetch
\* fails is failed to the caller; no write-behind task exists for it and
\* the failing step changes no generation.
C12_CacheFirstMissFails ==
  [][/\ \A x \in Seen' :
          CacheFirstFetchFailed(x)
            => /\ x.pc = "done" /\ x.out = "fail"
               /\ x.wb = "none" /\ x.put = "none" /\ x.ev = "none"
     /\ CacheFirstFetchFailed(last') => store' = store]_vars

\* the fetch of an image no generation holds was rejected
C12_Witness ==
  /\ CacheFirstFetchFailed(last)
  /\ last.route = "image"
  /\ last.out = "fail"
  /\ CachesMatch(store, last.req.url) = Undefined

\* C13: after the concurrent image writes have finished, one further image
\* write whose eviction check has run and evicted leaves the image
\* generation with at most IMAGE_CACHE_LIMIT entries.
C13_ExcessIsTransient ==
  (/\ Quiet
   /\ events = MaxBurst + 1
   /\ last.req = Get(ImgUrl(IMAGE_CACHE_LIMIT + MaxBurst + 1))
   /\ last.ev = "done"
   /\ last.keys0 # NoUrl)
    => Len(ImageEntries) <= IMAGE_CACHE_LIMIT

\* the concurrent writes have finished and left the image generation two
\* entries above its limit
C13_Witness ==
  /\ Quiet
  /\ events = MaxBurst
  /\ Len(ImageEntries) = IMAGE_CACHE_LIMIT + MaxBurst

\* the step resolves the fetch of handler x with an ok response and y is
\* the handler after it
ResolvesOk(x, y) ==
  /\ x.pc = "fetch"
  /\ CopiesIn(x, h') < CopiesIn(x, h)
  /\ y.req = x.req /\ y.pc = "done"
  /\ y.net # Undefined /\ y.net.ok
  /\ (y = last' \/ CopiesIn(y, h') > CopiesIn(y, h))

\* the store write of handler x has been started and has not landed
WritePending(x) ==
  /\ x.pc = "done" /\ x.out = "resp" /\ x.net # Undefined /\ x.net.ok
  /\ (x.wb = "open" \/ x.put = "pending")

\* C14: the caller gets the ok response of the network before the store
\* write: the step that answers changes no generation and leaves the write
\* as a task still to run, so that an identical request handled before the
\* write lands misses the cache.
C14_AnswersBeforeWrite ==
  [][\A x \in BagToSet(h) : \A y \in Seen' :
       ResolvesOk(x, y)
         => /\ y.out = "resp" /\ y.resp = y.net
            /\ y.wb = "open" /\ y.put = "none"
            /\ store' = store]_vars

\* cache-first: while the write of the first request for photo-102 is
\* pending, a second request for it has missed the cache and issued its own
\* network fetch
C14_Witness ==
  \E x \in InFlight : \E y \in InFlight :
    /\ x.route = "image" /\ WritePending(x)
    /\ y.req = x.req
    /\ y.pc = "fetch" /\ y.nfetch = 1 /\ y.sawImg = Undefined
    /\ CachesMatch(store, x.req.url) = Undefined

\* network-first: while the write of the first request for app.js is
\* pending, the fetch of a second request for it has failed and its
\* fallback has found no snapshot
C14_WitnessNetworkFirst ==
  \E x \in InFlight :
    /\ x.route = "sameorigin" /\ WritePending(x)
    /\ last.req = x.req
    /\ last.via = "fallback" /\ last.out = "fail"
    /\ CachesMatch(store, x.req.url) = Undefined

\* the step lands the put of image handler x while the image generation
\* holds an entry for its URL
RepeatPut(x) ==
  /\ x.route = "image" /\ x.put = "pending"
  /\ x.req.url \in EntryUrls(ImageEntries)
  /\ CopiesIn(x, h') < CopiesIn(x, h)
  /\ \E y \in Seen' :
       /\ y = [x EXCEPT !.put = "done"]
       /\ (y = last' \/ CopiesIn(y, h') > CopiesIn(y, h))

\* C15 as stated: a repeat write for an image the image generation holds
\* replaces the snapshot, adds no entry and leaves the order of
\* enumeration, hence of eviction, as it was.
C15_RepeatWriteKeepsPosition ==
  [][\A x \in BagToSet(h) :
       RepeatPut(x)
         => /\ Len(Entries(store', IMAGE_CACHE)) = Len(ImageEntries)
            /\ Lookup(Entries(store', IMAGE_CACHE), x.req.url) = x.resp
            /\ CacheKeys(store', IMAGE_CACHE) = CacheKeys(store, IMAGE_CACHE)]_vars

\* C15 as amended: a repeat write for an image the image generation holds
\* replaces the snapshot, adds no entry and makes the image the last of the
\* enumeration: the most recently inserted entry, the last to be evicted.
C15_RepeatWriteMovesToEnd ==
  [][\A x \in BagToSet(h) :
       RepeatPut(x)
         => /\ Len(Entries(store', IMAGE_CACHE)) = Len(ImageEntries)
            /\ Lookup(Entries(store', IMAGE_CACHE), x.req.url) = x.resp
            /\ CacheKeys(store', IMAGE_CACHE) =
                 Append(SelectSeq(CacheKeys(store, IMAGE_CACHE),
                                  LAMBDA k : k # x.req.url),
                        x.req.url)]_vars

\* photo-102 was stored by one of two concurrent requests, photo-101 was
\* stored after it, and the put of the other request for photo-102 has
\* landed: photo-102 is held once and is the last of the enumeration
C15_Witness ==
  /\ events = MaxRepeat
  /\ \E y \in Seen : \E z \in InFlight :
       /\ y.req = Get(ImgUrl(IMAGE_CACHE_LIMIT + 2))
       /\ y.nfetch = 1 /\ y.put = "done"
       /\ z.req = Get(ImgUrl(IMAGE_CACHE_LIMIT + 1))
       /\ z.put = "done"
  /\ Len(ImageEntries) >= 2
  /\ SubSeq(CacheKeys(store, IMAGE_CACHE), Len(ImageEntries) - 1, Len(ImageEntries))
       = <<ImgUrl(IMAGE_CACHE_LIMIT + 1), ImgUrl(IMAGE_CACHE_LIMIT + 2)>>

\* what the target generation of handler x held for its URL when x looked
\* the URL up
SawInTarget(x) == IF x.route = "image" THEN x.sawImg ELSE x.sawCur

\* C16: a response served from the cache, by a cache-first lookup or by the
\* fallback of the same-origin branch, is the snapshot the target
\* generation of the branch held: the image generation for an image
\* request, the current-version generation otherwise.
C16_LookupsConfined ==
  \A x \in Seen :
    (x.out = "resp" /\ x.via \in {"cache", "fallback"})
      => /\ SawInTarget(x) # Undefined
         /\ x.resp = SawInTarget(x)

\* an image request was answered from the cache although the image
\* generation held nothing for its URL
C16_Witness ==
  /\ last.route = "image"
  /\ last.via = "cache" /\ last.out = "resp"
  /\ last.sawImg = Undefined
  /\ last.resp = Lookup(Entries(store, "folio-v0.9"), last.req.url)

\* C17: once the rollover has enumerated the generations, every stale
\* generation has its deletion attempted, whatever happens to the other
\* deletions: a stale generation still in the store is waiting for the
\* outcome of its own deletion or its own deletion was rejected.
C17_DeletionsIndependent ==
  act.pc \in {"deleting", "rejected", "claimed"}
    => /\ \A k \in GenNames(store) : IsStale(k) => k \in act.tried
       /\ \A k \in act.tried :
            k \in GenNames(store) => (k \in act.pending \/ k \in act.rejected)

\* the deletion of one stale generation was rejected and the other stale
\* generation has been deleted
C17_Witness ==
  /\ act.pc = "rejected"
  /\ act.pending = {}
  /\ Cardinality(act.rejected) = 1
  /\ \E k \in act.tried : k \notin act.rejected /\ k \notin GenNames(store)

\* C18: a handler whose fetch resolved has given the caller that response,
\* and the caller keeps it whatever becomes of the write-behind task: its
\* caches.open, put, keys or delete pending, done or rejected.
C18_WriteFailureNotSurfaced ==
  \A x \in Seen :
    x.net # Undefined
      => /\ x.pc = "done" /\ x.out = "resp"
         /\ x.resp = x.net
         /\ x.via = "network"

\* the put of a fetched image was rejected and its eviction check failed
\* too; the caller has the response of the network
C18_Witness ==
  /\ last.route = "image"
  /\ last.put = "failed"
  /\ last.ev = "failed"
  /\ last.out = "resp" /\ last.resp = OkResp(1)

\* the step is a step of handler x
Acts(x) == CopiesIn(x, h') < CopiesIn(x, h)

\* C19: the image generation holds URLs of the image host only (it does
\* initially and every URL a step adds is one) and changes
\* only in steps of image handlers; a step of an image handler leaves the
\* current-version generation as it is; no step removes a URL from the
\* current-version generation.
C19_GenerationsIsolated ==
  /\ \A u \in EntryUrls(ImageEntries) : IsImage(Get(u))
  /\ [][/\ \A u \in EntryUrls(Entries(store', IMAGE_CACHE)) \ EntryUrls(ImageEntries) :
             IsImage(Get(u))
        /\ Entries(store', IMAGE_CACHE) # ImageEntries
             => \E x \in BagToSet(h) : Acts(x) /\ x.route = "image"
        /\ \A x \in BagToSet(h) :
             (Acts(x) /\ x.route = "image")
               => Entries(store', CACHE_NAME) = CurrentEntries
        /\ EntryUrls(CurrentEntries) \subseteq EntryUrls(Entries(store', CACHE_NAME))]_vars

\* an image handler has stored its image and evicted the oldest one while
\* the current-version generation holds, next to the precache, a URL
\* stored by a handler of another branch
C19_Witness ==
  /\ last.route = "image"
  /\ last.put = "done" /\ last.ev = "done" /\ last.keys0 # NoUrl
  /\ last.req.url \in EntryUrls(ImageEntries)
  /\ PrecacheSet \subseteq EntryUrls(CurrentEntries)
  /\ Len(CurrentEntries) > Len(PRECACHE_URLS)

\* the promise handler x gave to respondWith has not settled
Unsettled(x) == x.pc # "done"

\* a settled handler has one outcome, a response or a failure, and a
\* handler that has not settled has none
OneOutcome(x) ==
  /\ x.pc = "done" => \/ x.out = "resp" /\ x.resp # Undefined
                      \/ x.out = "fail" /\ x.resp = Undefined
  /\ x.pc \in {"match", "fetch", "fallback"}
       => x.out = "none" /\ x.resp = Undefined

\* a step of a settled handler keeps its outcome
OutcomeKept(x) ==
  (Acts(x) /\ x.pc = "done")
    => \E y \in Seen' :
         /\ (y = last' \/ CopiesIn(y, h') > CopiesIn(y, h))
         /\ y.req = x.req /\ y.pc = "done"
         /\ y.out = x.out /\ y.resp = x.resp

\* C20: every request given a handler gets exactly one outcome. A handler
\* settles once, with a response or with a failure, later steps of its
\* write-behind task leave that outcome alone, and when lookups and fetches
\* settle, the handlers that have not settled eventually have.
C20_OneTerminalOutcome ==
  /\ [][/\ \A y \in Seen' : OneOutcome(y)
         /\ \A x \in BagToSet(h) : OutcomeKept(x)]_vars
  /\ (\E x \in InFlight : Unsettled(x)) ~> (\A x \in InFlight : ~Unsettled(x))

\* one request has been failed to its caller while the handler of another
\* request, answered from the network, still has its write to do
C20_Witness ==
  /\ last.pc = "done" /\ last.out = "fail"
  /\ \E x \in InFlight :
       /\ x.pc = "done" /\ x.out = "resp" /\ x.via = "network"
       /\ x.put = "pending"

====
